---- MODULE Spec2Model ----
(***************************************************************************)
(* Model of the VAH hardening of q-gram sets (hardening.py) and of the     *)
(* selection of the q-grams to be hardened (main.py).                      *)
(*                                                                         *)
(* Q-grams are strings; a qualified token is the string q_v \o str(index). *)
(* A Python dict is a sequence of entries in insertion order; a Python set *)
(* is a set, enumerated in the order the variable `order` fixes for the    *)
(* process.  The module-level generator `random` is the pair               *)
(* (stream, memo): stream is the sequence of requests made since the last  *)
(* random.seed(), memo maps each such sequence to the value the generator  *)
(* returned for it.  A request never seen before may return any value of   *)
(* its range; a request sequence seen before returns what it returned      *)
(* then.  With replay = FALSE the generator is not recorded and every      *)
(* draw may return any value of its range.                                 *)
(***************************************************************************)
EXTENDS Integers, Sequences, FiniteSets, TLC

VARIABLES
    secret_seed,        \* VAH.secret_seed
    vuln_q_grams,       \* VAH.vuln_q_grams (a set)
    non_vuln_q_grams,   \* VAH.non_vuln_q_grams (a list)
    l_r,                \* VAH.l_r
    indexed_ref_sets,   \* VAH.indexed_ref_sets (None until generated)
    order,              \* the enumeration order of sets in this process
    replay,             \* whether the generator's stream is recorded
    stream,             \* requests made to `random` since the last seed()
    memo,               \* request sequence -> value returned
    pc,                 \* position of the program
    crash,              \* the exception that ended the program, or "none"
    gen,                \* locals of generate_reference_sets
    hard,               \* locals of harden_with_vah_ref_sets
    run,                \* 1: first run, 2: the repeated run
    first,              \* what the first run produced
    sel                 \* locals of get_q_grams_to_be_hardened and its caller

vars == <<secret_seed, vuln_q_grams, non_vuln_q_grams, l_r, indexed_ref_sets,
          order, replay, stream, memo, pc, crash, gen, hard, run, first, sel>>

vah == <<secret_seed, vuln_q_grams, non_vuln_q_grams, l_r>>

(***************************************************************************)
(* Bounds of the model.                                                    *)
(***************************************************************************)
\* generate_reference_sets is started only on inputs giving at most this
\* many reference sets in total
MaxRefSets == 3
\* a padding loop makes no further draw once the recorded stream is this long
MaxStream == 3
\* largest count of a q-gram in the frequency table given to the selection
MaxCount == 2

(***************************************************************************)
(* The inputs the model draws from.                                        *)
(***************************************************************************)
\* two enumeration orders of the q-grams (one per hash seed of the process)
Order1 == <<"he", "er", "re", "in", "qu", "zx", "th", "xy", "aa", "bb", "cc", "dd">>

Order2 == <<"dd", "cc", "bb", "aa", "xy", "th", "zx", "qu", "in", "re", "er", "he">>

Orders == {Order1, Order2}

Seeds == {42}

\* the arguments of VAH(seed, hardened_q_grams, non_freq_q_grams, l_r)
ExampleConfig ==
    [vuln |-> {"th", "aa", "bb", "cc", "dd"}, non_vuln |-> <<"xy">>, l_r |-> 3]

Configs ==
    [vuln : {{"th"}, {"th", "er"}},
     non_vuln : {<<>>, <<"in">>, <<"in", "he">>, <<"in", "th">>},
     l_r : {2, 3}]
    \cup {ExampleConfig}

\* the fallback lists of the instances that are run twice
ReplayFallbacks == {<<"in", "he">>}

\* public databases: record id (position) -> q-gram set
ExamplePub == <<{"th", "he", "er", "re", "in", "qu", "zx"}>>

PubDbs ==
    {<<{"th", "he"}, {"th", "er", "in"}>>,
     <<{"th", "he", "er"}, {"th", "re", "in"}>>,
     <<{"th", "er", "he"}, {"er", "in", "re"}>>,
     <<{"th"}, {"er", "in"}>>,
     ExamplePub}

\* sensitive databases: record id (position) -> q-gram set
ExampleSens == <<{"th", "er", "xy"}>>

SensDbs ==
    {<<{"th", "er"}, {"th", "xy"}>>,
     <<{"th", "er", "he"}, {"xy"}>>,
     ExampleSens}

(***************************************************************************)
(* Generic helpers.                                                        *)
(***************************************************************************)
Min(a, b) == IF a < b THEN a ELSE b

Max(a, b) == IF a > b THEN a ELSE b

Range(s) == {s[k] : k \in DOMAIN s}

\* list(S), "for x in S": the elements of the set S in the process's order
SetToList(S) == SelectSeq(order, LAMBDA q : q \in S)

\* str(n) for a non-negative integer
Digit(d) ==
    CASE d = 0 -> "0" [] d = 1 -> "1" [] d = 2 -> "2" [] d = 3 -> "3"
      [] d = 4 -> "4" [] d = 5 -> "5" [] d = 6 -> "6" [] d = 7 -> "7"
      [] d = 8 -> "8" [] d = 9 -> "9"

RECURSIVE Str(_)
Str(n) == IF n < 10 THEN Digit(n) ELSE Str(n \div 10) \o Digit(n % 10)

\* s[start:] of a Python list, start possibly negative
PySliceFrom(s, start) ==
    LET from == IF start < 0 THEN Max(Len(s) + start, 0) ELSE Min(start, Len(s))
    IN  SubSeq(s, from + 1, Len(s))

\* d[k] = v on a dict held as a sequence of [key, val] entries
DictPut(d, k, v) ==
    IF \E j \in DOMAIN d : d[j].key = k
    THEN [j \in DOMAIN d |-> IF d[j].key = k THEN [key |-> k, val |-> v] ELSE d[j]]
    ELSE Append(d, [key |-> k, val |-> v])

DictKeys(d) == {d[j].key : j \in DOMAIN d}

DictGet(d, k) == (CHOOSE j \in DOMAIN d : d[j].key = k)

(***************************************************************************)
(* The generator `random`.                                                 *)
(***************************************************************************)
Req(op, n, k) == [op |-> op, n |-> n, k |-> k]

\* random.seed(s): the stream starts again
NoSeed(s, old) == old

RandomSeed(s, old) == IF replay THEN <<Req("seed", s, 0)>> ELSE old

\* the values the generator may return for the request req, whose range is S
Returned(req, S) ==
    IF replay /\ Append(stream, req) \in DOMAIN memo
    THEN {memo[Append(stream, req)]}
    ELSE S

\* the generator after it returned r for the request req
Draw(req, r) ==
    IF ~replay
    THEN UNCHANGED <<stream, memo>>
    ELSE LET key == Append(stream, req)
         IN  /\ stream' = key
             /\ memo' = IF key \in DOMAIN memo THEN memo ELSE (key :> r) @@ memo

\* the outcomes of random.sample(range(0, n), t) followed by random.shuffle:
\* the sequences of t pairwise distinct integers of 0..n-1, in any order
RECURSIVE InjSeqs(_, _)
InjSeqs(n, t) ==
    IF t = 0 THEN {<<>>}
    ELSE UNION {{Append(s, x) : x \in (0 .. (n - 1)) \ Range(s)} : s \in InjSeqs(n, t - 1)}

SampleWithReplacement(n, t) == [1 .. t -> 0 .. (n - 1)]

SampleShuffle(n, t) == InjSeqs(n, t)

(***************************************************************************)
(* q_gram_dice_sim: the score 2|A & B| / (|A| + |B|) as a fraction.  Two   *)
(* floats computed this way are equal exactly when the fractions are.      *)
(***************************************************************************)
q_gram_dice_sim(q_gram_set1, q_gram_set2) ==
    [num |-> 2 * Cardinality(q_gram_set1 \cap q_gram_set2),
     den |-> Cardinality(q_gram_set1) + Cardinality(q_gram_set2)]

ScoreLess(a, b) == a.num * b.den < b.num * a.den

ScoreEq(a, b) == a.num * b.den = b.num * a.den

(***************************************************************************)
(* generate_reference_sets                                                 *)
(***************************************************************************)
NoGen ==
    [pub |-> <<>>, pools |-> <<>>, reference_sets |-> <<>>, qv_k |-> 0,
     co_list |-> <<>>, i |-> 0, qs_r |-> {}, qv_qs_r_count |-> 0,
     total_qs_r_count |-> 0]

\* vuln_q_gram_co_occurrences: one entry per vulnerable q-gram, holding the
\* union of qs - {q_v} over the public records qs that contain q_v
CoOccurrences(pub) ==
    LET keys == SetToList(vuln_q_grams)
    IN  [k \in 1 .. Len(keys) |->
            [key |-> keys[k],
             val |-> UNION {pub[r] \ {keys[k]} :
                            r \in {x \in DOMAIN pub : keys[k] \in pub[x]}}]]

\* number of passes of "for i in range(0, n, l_r)"
NumChunks(n) == (n + l_r - 1) \div l_r

RECURSIVE SumChunks(_)
SumChunks(pools) ==
    IF pools = <<>> THEN 0
    ELSE NumChunks(Cardinality(Head(pools).val)) + SumChunks(Tail(pools))

GenStartBody(pub) ==
    /\ stream' = RandomSeed(secret_seed, stream)
    /\ gen' = [NoGen EXCEPT !.pub = pub, !.pools = CoOccurrences(pub), !.qv_k = 1]
    /\ pc' = "gen_qv"

GenStart ==
    /\ pc = "idle"
    /\ \E pub \in PubDbs :
          /\ SumChunks(CoOccurrences(pub)) <= MaxRefSets
          /\ GenStartBody(pub)
    /\ UNCHANGED <<vah, indexed_ref_sets, order, replay, memo, crash, hard, run,
                   first, sel>>

\* the head of "for q_v, co_occurring_q_grams in ...items()", and its end
GenQv ==
    /\ pc = "gen_qv"
    /\ IF gen.qv_k > Len(gen.pools)
       THEN /\ pc' = "gen_index"
            /\ UNCHANGED gen
       ELSE /\ pc' = "gen_chunk"
            /\ gen' = [gen EXCEPT
                         !.co_list = SetToList(gen.pools[gen.qv_k].val),
                         !.reference_sets =
                             DictPut(@, gen.pools[gen.qv_k].key, <<>>),
                         !.qv_qs_r_count = 0,
                         !.i = 0]
    /\ UNCHANGED <<vah, indexed_ref_sets, order, replay, stream, memo, crash,
                   hard, run, first, sel>>

\* the assert on the length, qv_qs_r_count += 1 and the append
AppendRefSet(new) ==
    IF Cardinality(new) # l_r
    THEN /\ pc' = "crashed"
         /\ crash' = "AssertionError"
         /\ gen' = [gen EXCEPT !.qs_r = new]
    ELSE /\ pc' = "gen_chunk"
         /\ crash' = crash
         /\ gen' = [gen EXCEPT
                      !.qs_r = new,
                      !.qv_qs_r_count = @ + 1,
                      !.i = @ + l_r,
                      !.reference_sets[gen.qv_k].val = Append(@, new)]

\* one pass of "for i in range(0, len(co_occurring_q_grams), l_r)" up to the
\* padding loops, and the end of that loop
GenChunk ==
    /\ pc = "gen_chunk"
    /\ IF gen.i >= Len(gen.co_list)
       THEN /\ pc' = "gen_qv"
            /\ crash' = crash
            /\ gen' = [gen EXCEPT
                         !.total_qs_r_count = @ + gen.qv_qs_r_count,
                         !.qv_k = @ + 1]
       ELSE LET qs_r == {gen.co_list[j] :
                           j \in (gen.i + 1) .. Min(gen.i + l_r, Len(gen.co_list))}
            IN  IF Cardinality(qs_r) < l_r /\ gen.qv_qs_r_count > 0
                THEN /\ pc' = "pad_pool"
                     /\ crash' = crash
                     /\ gen' = [gen EXCEPT !.qs_r = qs_r]
                ELSE IF Cardinality(qs_r) < l_r /\ gen.qv_qs_r_count = 0
                THEN /\ pc' = "pad_fallback"
                     /\ crash' = crash
                     /\ gen' = [gen EXCEPT !.qs_r = qs_r]
                ELSE AppendRefSet(qs_r)
    /\ UNCHANGED <<vah, indexed_ref_sets, order, replay, stream, memo, hard, run,
                   first, sel>>

\* the list the first padding loop draws from
PadPoolFromFallback == non_vuln_q_grams

PadPoolSource == gen.co_list

\* one pass of the first padding loop, and what follows its exit
PadPool ==
    /\ pc = "pad_pool"
    /\ replay => Len(stream) < MaxStream
    /\ \E r \in Returned(Req("randint", Len(PadPoolSource), 0),
                        0 .. (Len(PadPoolSource) - 1)) :
          /\ Draw(Req("randint", Len(PadPoolSource), 0), r)
          /\ LET new == gen.qs_r \cup {PadPoolSource[r + 1]}
             IN  IF Cardinality(new) < l_r
                 THEN /\ gen' = [gen EXCEPT !.qs_r = new]
                      /\ UNCHANGED <<pc, crash>>
                 ELSE AppendRefSet(new)
    /\ UNCHANGED <<vah, indexed_ref_sets, order, replay, hard, run, first, sel>>

\* the values random.randint(0, len(self.non_vuln_q_grams) - 1) can return
FallbackFirstOnly == {0}

FallbackDraws == 0 .. (Len(non_vuln_q_grams) - 1)

\* the second padding loop with "if" for "while" and no assert after it
PadFallbackOnce ==
    /\ pc = "pad_fallback"
    /\ replay => Len(stream) < MaxStream
    /\ Len(non_vuln_q_grams) > 0
    /\ \E r \in Returned(Req("randint", Len(non_vuln_q_grams), 0), FallbackDraws) :
          /\ Draw(Req("randint", Len(non_vuln_q_grams), 0), r)
          /\ pc' = "gen_chunk"
          /\ gen' = [gen EXCEPT
                       !.qs_r = gen.qs_r \cup {non_vuln_q_grams[r + 1]},
                       !.qv_qs_r_count = @ + 1,
                       !.i = @ + l_r,
                       !.reference_sets[gen.qv_k].val =
                           Append(@, gen.qs_r \cup {non_vuln_q_grams[r + 1]})]
    /\ UNCHANGED <<vah, indexed_ref_sets, order, replay, crash, hard, run, first, sel>>

\* one pass of the second padding loop, and what follows its exit
PadFallback ==
    /\ pc = "pad_fallback"
    /\ replay => Len(stream) < MaxStream
    /\ Len(non_vuln_q_grams) > 0
    /\ \E r \in Returned(Req("randint", Len(non_vuln_q_grams), 0), FallbackDraws) :
          /\ Draw(Req("randint", Len(non_vuln_q_grams), 0), r)
          /\ LET new == gen.qs_r \cup {non_vuln_q_grams[r + 1]}
             IN  IF Cardinality(new) < l_r
                 THEN /\ gen' = [gen EXCEPT !.qs_r = new]
                      /\ UNCHANGED <<pc, crash>>
                 ELSE AppendRefSet(new)
    /\ UNCHANGED <<vah, indexed_ref_sets, order, replay, hard, run, first, sel>>

\* random.randint(0, -1) raises ValueError
PadFallbackRaise ==
    /\ pc = "pad_fallback"
    /\ Len(non_vuln_q_grams) = 0
    /\ pc' = "crashed"
    /\ crash' = "ValueError"
    /\ UNCHANGED <<vah, indexed_ref_sets, order, replay, stream, memo, gen, hard,
                   run, first, sel>>

\* "for ref_set in ref_sets: indexed_reference_sets[q_v][random_indices.pop()]"
RECURSIVE IndexOne(_, _, _)
IndexOne(ref_sets, random_indices, d) ==
    IF ref_sets = <<>> THEN [d |-> d, rest |-> random_indices]
    ELSE IndexOne(Tail(ref_sets),
                  SubSeq(random_indices, 1, Len(random_indices) - 1),
                  DictPut(d, random_indices[Len(random_indices)], Head(ref_sets)))

\* "for q_v, ref_sets in reference_sets.items()"
RECURSIVE IndexAll(_, _, _)
IndexAll(reference_sets, random_indices, indexed) ==
    IF reference_sets = <<>> THEN indexed
    ELSE LET one == IndexOne(Head(reference_sets).val, random_indices, <<>>)
         IN  IndexAll(Tail(reference_sets), one.rest,
                      DictPut(indexed, Head(reference_sets).key, one.d))

\* the sampling of the indices, their assignment and the final assert
GenIndex ==
    /\ pc = "gen_index"
    /\ LET T == gen.total_qs_r_count
           V == Cardinality(vuln_q_grams)
       IN  \E random_indices \in Returned(Req("sample_shuffle", T * V, T),
                                           SampleShuffle(T * V, T)) :
              /\ Draw(Req("sample_shuffle", T * V, T), random_indices)
              /\ LET indexed == IndexAll(gen.reference_sets, random_indices, <<>>)
                 IN  IF Len(indexed) = Len(gen.reference_sets)
                        /\ Len(gen.reference_sets) = V
                     THEN /\ indexed_ref_sets' = indexed
                          /\ pc' = "gen_done"
                          /\ crash' = crash
                     ELSE /\ indexed_ref_sets' = indexed_ref_sets
                          /\ pc' = "crashed"
                          /\ crash' = "AssertionError"
    /\ UNCHANGED <<vah, order, replay, gen, hard, run, first, sel>>

(***************************************************************************)
(* harden_with_vah_ref_sets                                                *)
(***************************************************************************)
NoHard ==
    [data_in |-> <<>>, data_dict |-> <<>>, q_gram_f_dist |-> <<>>, rec_k |-> 0,
     vuln_qs |-> <<>>, hardened_rec_count |-> 0, q_gram_to_quali_mapping |-> <<>>,
     last |-> <<>>]

\* q_gram_dict of extract_q_gram_sets: in how many records each q-gram occurs
ExtractCounts(data) ==
    [q \in UNION Range(data) |-> Cardinality({r \in DOMAIN data : q \in data[r]})]

HardenStartBody(data) ==
    /\ stream' = RandomSeed(secret_seed, stream)
    /\ hard' = [NoHard EXCEPT
                  !.data_in = data,
                  !.data_dict = data,
                  !.q_gram_f_dist = ExtractCounts(data),
                  !.rec_k = 1]
    /\ pc' = "harden_rec"

HardenStart ==
    /\ pc = "gen_done"
    /\ \E data \in SensDbs :
          /\ run = 2 => data = first.data_in
          /\ HardenStartBody(data)
    /\ UNCHANGED <<vah, indexed_ref_sets, order, replay, memo, crash, gen, run,
                   first, sel>>

\* the head of "for rec_id, qs in data_dict.items()", and the return
HardenRec ==
    /\ pc = "harden_rec"
    /\ IF hard.rec_k > Len(hard.data_dict)
       THEN /\ pc' = "harden_done"
            /\ UNCHANGED hard
       ELSE LET vuln_qs == SetToList(hard.data_dict[hard.rec_k] \cap vuln_q_grams)
            IN  IF Len(vuln_qs) > 0
                THEN /\ pc' = "harden_qv"
                     /\ hard' = [hard EXCEPT !.vuln_qs = vuln_qs]
                ELSE /\ pc' = pc
                     /\ hard' = [hard EXCEPT !.rec_k = @ + 1]
    /\ UNCHANGED <<vah, indexed_ref_sets, order, replay, stream, memo, crash, gen,
                   run, first, sel>>

\* sim_scores: one entry per reference set registered under q_v
SimScores(qs, refs) ==
    [j \in DOMAIN refs |-> [key |-> refs[j].key, val |-> q_gram_dice_sim(qs, refs[j].val)]]

\* sorted(..., reverse=True): stable, highest score first
RECURSIVE InsertDesc(_, _)
InsertDesc(s, x) ==
    IF s = <<>> THEN <<x>>
    ELSE IF ScoreLess(Head(s).val, x.val) THEN <<x>> \o s
    ELSE <<Head(s)>> \o InsertDesc(Tail(s), x)

RECURSIVE InsertAsc(_, _)
InsertAsc(s, x) ==
    IF s = <<>> THEN <<x>>
    ELSE IF ScoreLess(x.val, Head(s).val) THEN <<x>> \o s
    ELSE <<Head(s)>> \o InsertAsc(Tail(s), x)

RECURSIVE SortAscFrom(_, _)
SortAscFrom(items, acc) ==
    IF items = <<>> THEN acc ELSE SortAscFrom(Tail(items), InsertAsc(acc, Head(items)))

RECURSIVE SortDescFrom(_, _)
SortDescFrom(items, acc) ==
    IF items = <<>> THEN acc ELSE SortDescFrom(Tail(items), InsertDesc(acc, Head(items)))

SortedAscending(sim_scores) == SortAscFrom(sim_scores, <<>>)

SortedItems(sim_scores) == SortDescFrom(sim_scores, <<>>)

\* the keys of the leading entries whose value equals the first one's
RECURSIVE MaxKeys(_, _)
MaxKeys(sorted_items, max_value) ==
    IF sorted_items = <<>> THEN <<>>
    ELSE IF ScoreEq(Head(sorted_items).val, max_value)
    THEN <<Head(sorted_items).key>> \o MaxKeys(Tail(sorted_items), max_value)
    ELSE <<>>

\* qs.remove(q_v); qs.add(replacement)
AddOnly(qs, q_v, replacement) == qs \cup {replacement}

ReplaceInSet(qs, q_v, replacement) == (qs \ {q_v}) \cup {replacement}

\* the update of the frequency distribution
LedgerUpdateNoDelete(q_gram_f_dist, q_v, replacement) ==
    LET dec == [q_gram_f_dist EXCEPT ![q_v] = @ - 1]
        ins == IF replacement \notin DOMAIN dec THEN (replacement :> 0) @@ dec ELSE dec
    IN  [ins EXCEPT ![replacement] = @ + 1]

LedgerUpdate(q_gram_f_dist, q_v, replacement) ==
    LET dec == [q_gram_f_dist EXCEPT ![q_v] = @ - 1]
        del == IF dec[q_v] = 0 THEN [k \in DOMAIN dec \ {q_v} |-> dec[k]] ELSE dec
        ins == IF replacement \notin DOMAIN del THEN (replacement :> 0) @@ del ELSE del
    IN  [ins EXCEPT ![replacement] = @ + 1]

\* the update of q_gram_to_quali_mapping
MappingUpdate(mapping, q_v, replacement) ==
    IF q_v \notin DictKeys(mapping) THEN DictPut(mapping, q_v, <<replacement>>)
    ELSE IF replacement \notin Range(mapping[DictGet(mapping, q_v)].val)
    THEN [mapping EXCEPT ![DictGet(mapping, q_v)].val = Append(@, replacement)]
    ELSE mapping

\* the reference sets registered under q_v
RefSetsOf(q_v) == indexed_ref_sets[DictGet(indexed_ref_sets, q_v)].val

\* sorted_items[0] of an empty list raises IndexError
HardenNoRefSet ==
    /\ pc = "harden_qv"
    /\ RefSetsOf(Head(hard.vuln_qs)) = <<>>
    /\ pc' = "crashed"
    /\ crash' = "IndexError"
    /\ UNCHANGED <<vah, indexed_ref_sets, order, replay, stream, memo, gen, hard,
                   run, first, sel>>

\* one pass of "for q_v in vuln_qs", and the end of that loop
HardenQv ==
    /\ pc = "harden_qv"
    /\ LET q_v == Head(hard.vuln_qs)
           qs == hard.data_dict[hard.rec_k]
           sorted_items == SortedItems(SimScores(qs, RefSetsOf(q_v)))
       IN  /\ sorted_items # <<>>
           /\ LET max_keys == MaxKeys(sorted_items, sorted_items[1].val)
              IN  \E c \in Returned(Req("choice", Len(max_keys), 0),
                                      0 .. (Len(max_keys) - 1)) :
                     /\ Draw(Req("choice", Len(max_keys), 0), c)
                     /\ LET qualifier == max_keys[c + 1]
                            replacement == q_v \o Str(qualifier)
                            last == [rec |-> hard.rec_k, q_v |-> q_v,
                                     qualifier |-> qualifier]
                        IN  IF q_v \notin DOMAIN hard.q_gram_f_dist
                            THEN /\ pc' = "crashed"
                                 /\ crash' = "AssertionError"
                                 /\ hard' = [hard EXCEPT
                                     !.data_dict[hard.rec_k] =
                                         ReplaceInSet(qs, q_v, replacement)]
                            ELSE /\ crash' = crash
                                 /\ pc' = IF Len(hard.vuln_qs) = 1
                                          THEN "harden_rec" ELSE pc
                                 /\ hard' = [hard EXCEPT
                                     !.data_dict[hard.rec_k] =
                                         ReplaceInSet(qs, q_v, replacement),
                                     !.q_gram_to_quali_mapping =
                                         MappingUpdate(@, q_v, replacement),
                                     !.q_gram_f_dist =
                                         LedgerUpdate(@, q_v, replacement),
                                     !.vuln_qs = Tail(@),
                                     !.last = last,
                                     !.hardened_rec_count =
                                         IF Len(hard.vuln_qs) = 1 THEN @ + 1 ELSE @,
                                     !.rec_k =
                                         IF Len(hard.vuln_qs) = 1 THEN @ + 1 ELSE @]
    /\ UNCHANGED <<vah, indexed_ref_sets, order, replay, gen, run, first, sel>>

(***************************************************************************)
(* A second run on the same instance with the same arguments: the whole    *)
(* of generation and hardening again, or hardening alone on the table the  *)
(* first run built.                                                        *)
(***************************************************************************)
NoFirst ==
    [mode |-> "none", pub |-> <<>>, data_in |-> <<>>, indexed_ref_sets |-> <<>>,
     data_dict |-> <<>>, q_gram_f_dist |-> <<>>]

Outcome(mode) ==
    [mode |-> mode, pub |-> gen.pub, data_in |-> hard.data_in,
     indexed_ref_sets |-> indexed_ref_sets, data_dict |-> hard.data_dict,
     q_gram_f_dist |-> hard.q_gram_f_dist]

RerunAll ==
    /\ pc = "harden_done"
    /\ replay
    /\ run = 1
    /\ run' = 2
    /\ first' = Outcome("all")
    /\ GenStartBody(gen.pub)
    /\ UNCHANGED <<vah, indexed_ref_sets, order, replay, memo, crash, hard, sel>>

RerunHarden ==
    /\ pc = "harden_done"
    /\ replay
    /\ run = 1
    /\ run' = 2
    /\ first' = Outcome("harden")
    /\ HardenStartBody(hard.data_in)
    /\ UNCHANGED <<vah, indexed_ref_sets, order, replay, memo, crash, gen, sel>>

(***************************************************************************)
(* get_q_grams_to_be_hardened and the construction of VAH from its result  *)
(***************************************************************************)
NoSel == [q_gram_dict |-> <<>>, n |-> 0, vuln_list |-> <<>>, non_vuln_list |-> <<>>]

\* sorted(q_gram_dict.items(), key=lambda item: item[1]): stable, ascending
RECURSIVE InsertByCount(_, _)
InsertByCount(s, x) ==
    IF s = <<>> THEN <<x>>
    ELSE IF x.val < Head(s).val THEN <<x>> \o s
    ELSE <<Head(s)>> \o InsertByCount(Tail(s), x)

RECURSIVE SortByCount(_, _)
SortByCount(items, acc) ==
    IF items = <<>> THEN acc ELSE SortByCount(Tail(items), InsertByCount(acc, Head(items)))

Keys(items) == [j \in DOMAIN items |-> items[j].key]

\* vuln_q_grams = [key for key, value in sorted_q_grams[-vuln_q_gram_count:]]
VulnOf(sorted_q_grams, vuln_q_gram_count) ==
    Keys(PySliceFrom(sorted_q_grams, 0 - vuln_q_gram_count))

\* non_vuln_q_grams = [key for key, value in sorted_q_grams[vuln_q_gram_count:]]
NonVulnOf(sorted_q_grams, vuln_q_gram_count) ==
    Keys(PySliceFrom(sorted_q_grams, vuln_q_gram_count))

GetQGramsToBeHardened ==
    /\ pc = "main"
    /\ LET sorted_q_grams == SortByCount(sel.q_gram_dict, <<>>)
       IN  sel' = [sel EXCEPT
                     !.vuln_list = VulnOf(sorted_q_grams, sel.n),
                     !.non_vuln_list = NonVulnOf(sorted_q_grams, sel.n)]
    /\ pc' = "selected"
    /\ UNCHANGED <<vah, indexed_ref_sets, order, replay, stream, memo, crash, gen,
                   hard, run, first>>

\* hd.VAH(secret_seed, set(hardened_q_grams), non_freq_q_grams, ref_set_length)
ConstructVAH ==
    /\ pc = "selected"
    /\ \E seed \in Seeds, len \in {2, 3} :
          /\ secret_seed' = seed
          /\ l_r' = len
    /\ vuln_q_grams' = Range(sel.vuln_list)
    /\ non_vuln_q_grams' = sel.non_vuln_list
    /\ indexed_ref_sets' = <<>>
    /\ pc' = "idle"
    /\ UNCHANGED <<order, replay, stream, memo, crash, gen, hard, run, first, sel>>

(***************************************************************************)
(* Initial states and specifications                                       *)
(***************************************************************************)
\* a VAH instance just constructed; indexed_ref_sets = None is <<>>
InitVAH ==
    /\ secret_seed \in Seeds
    /\ \E c \in Configs :
          /\ vuln_q_grams = c.vuln
          /\ non_vuln_q_grams = c.non_vuln
          /\ l_r = c.l_r
    /\ indexed_ref_sets = <<>>
    /\ order \in Orders
    /\ stream = <<>>
    /\ memo = <<>>
    /\ pc = "idle"
    /\ crash = "none"
    /\ gen = NoGen
    /\ hard = NoHard
    /\ run = 1
    /\ first = NoFirst
    /\ sel = NoSel

\* one run of generation and hardening; every draw may return any value
Init == InitVAH /\ replay = FALSE

Next ==
    \/ GenStart
    \/ GenQv
    \/ GenChunk
    \/ PadPool
    \/ PadFallback
    \/ PadFallbackRaise
    \/ GenIndex
    \/ HardenStart
    \/ HardenRec
    \/ HardenNoRefSet
    \/ HardenQv

Spec == Init /\ [][Next]_vars

\* the loops of generation alone, up to the sampling of the indices (the
\* code after the loops is straight-line); every step and every draw that
\* changes the state is eventually taken
NextGen ==
    \/ GenStart
    \/ GenQv
    \/ GenChunk
    \/ PadPool
    \/ PadFallback
    \/ PadFallbackRaise

SpecGen == Init /\ [][NextGen]_vars /\ WF_vars(NextGen)

\* two runs with the generator recorded; the fallback list is not empty, so
\* random.randint(0, -1) is never called
InitReplay ==
    /\ InitVAH
    /\ replay = TRUE
    /\ non_vuln_q_grams \in ReplayFallbacks
    /\ order = Order1

NextReplay ==
    \/ GenStart
    \/ GenQv
    \/ GenChunk
    \/ PadPool
    \/ PadFallback
    \/ GenIndex
    \/ HardenStart
    \/ HardenRec
    \/ HardenNoRefSet
    \/ HardenQv
    \/ RerunAll
    \/ RerunHarden

SpecReplay == InitReplay /\ [][NextReplay]_vars

\* the selection of the vulnerable q-grams: frequency tables (in insertion
\* order) over three q-grams with counts up to MaxCount
SelKeys == {"th", "er", "he"}

SelDicts ==
    UNION {{d \in [1 .. m -> [key : SelKeys, val : 1 .. MaxCount]] :
               \A a, b \in 1 .. m : a # b => d[a].key # d[b].key} : m \in 0 .. 3}

InitSelect ==
    /\ secret_seed = 0
    /\ vuln_q_grams = {}
    /\ non_vuln_q_grams = <<>>
    /\ l_r = 0
    /\ indexed_ref_sets = <<>>
    /\ order = Order1
    /\ replay = FALSE
    /\ stream = <<>>
    /\ memo = <<>>
    /\ pc = "main"
    /\ crash = "none"
    /\ gen = NoGen
    /\ hard = NoHard
    /\ run = 1
    /\ first = NoFirst
    /\ \E d \in SelDicts, n \in 0 .. 3 : sel = [NoSel EXCEPT !.q_gram_dict = d, !.n = n]

NextSelect ==
    \/ GetQGramsToBeHardened
    \/ ConstructVAH

SpecSelect == InitSelect /\ [][NextSelect]_vars

(***************************************************************************)
(* Definitions used by the properties                                      *)
(***************************************************************************)
Generated == pc \in {"gen_done", "harden_rec", "harden_qv", "harden_done"}

PoolOf(k) == gen.pools[k].val

\* every reference set generated so far, with the q-gram it belongs to
Emitted ==
    UNION {{<<k, j>> : j \in DOMAIN gen.reference_sets[k].val} :
              k \in DOMAIN gen.reference_sets}

\* every (vulnerable q-gram, index) pair of the indexed table
Indexed ==
    UNION {{<<k, j>> : j \in DOMAIN indexed_ref_sets[k].val} :
              k \in DOMAIN indexed_ref_sets}

IndexAt(p) == indexed_ref_sets[p[1]].val[p[2]].key

RefSetAt(p) == indexed_ref_sets[p[1]].val[p[2]].val

RECURSIVE SumOver(_, _)
SumOver(f, S) ==
    IF S = {} THEN 0
    ELSE LET x == CHOOSE y \in S : TRUE IN f[x] + SumOver(f, S \ {x})

LedgerSum(f) == SumOver(f, DOMAIN f)

\* the token of the last substitution and the record's set just before it
LastToken == hard.last.q_v \o Str(hard.last.qualifier)

LastBefore == (hard.data_dict[hard.last.rec] \ {LastToken}) \cup {hard.last.q_v}

\* Dice(A, B1) <= Dice(A, B2), on the integers
DiceLeq(A, B1, B2) ==
    2 * Cardinality(A \cap B1) * (Cardinality(A) + Cardinality(B2))
        <= 2 * Cardinality(A \cap B2) * (Cardinality(A) + Cardinality(B1))

\* the indices under q_v whose reference set scores highest against A
Best(A, q_v) ==
    {r.key : r \in {x \in Range(RefSetsOf(q_v)) :
                       \A y \in Range(RefSetsOf(q_v)) : DiceLeq(A, y.val, x.val)}}

FallbackMaterial == gen.qs_r \cup Range(non_vuln_q_grams)

\* every pool is empty, holds l_r q-grams or more, or reaches l_r with the
\* fallback list
EnoughMaterial ==
    \A k \in DOMAIN gen.pools :
        \/ PoolOf(k) = {}
        \/ Cardinality(PoolOf(k)) >= l_r
        \/ Cardinality(PoolOf(k) \cup Range(non_vuln_q_grams)) >= l_r

(***************************************************************************)
(* Properties                                                              *)
(***************************************************************************)
\* C1: every reference set generated, and every reference set of the indexed
\* table, has exactly l_r distinct members, whatever the size of the pool of
\* its vulnerable q-gram.
C1_RefSetSize ==
    /\ \A p \in Emitted :
          Cardinality(gen.reference_sets[p[1]].val[p[2]]) = l_r
    /\ \A p \in Indexed : Cardinality(RefSetAt(p)) = l_r

\* a finished generation with one empty pool (no reference set) and one
\* undersized pool padded from the fallback list
C1_Witness ==
    /\ pc = "gen_done"
    /\ \E k \in DOMAIN gen.pools : PoolOf(k) = {} /\ indexed_ref_sets[k].val = <<>>
    /\ \E k \in DOMAIN gen.pools :
          /\ PoolOf(k) # {}
          /\ Cardinality(PoolOf(k)) < l_r
          /\ Len(indexed_ref_sets[k].val) = 1

C3_DistinctIndices ==
    Generated =>
        LET T == Cardinality(Emitted)
            V == Cardinality(vuln_q_grams)
        IN  /\ \A p, q \in Indexed : p # q => IndexAt(p) # IndexAt(q)
            /\ \A p \in Indexed : IndexAt(p) \in 0 .. (T * V - 1)
            /\ Cardinality(Indexed) = T
            /\ DictKeys(indexed_ref_sets) = vuln_q_grams
            /\ Len(indexed_ref_sets) = V

\* a table with reference sets under two vulnerable q-grams
C3_Witness ==
    /\ pc = "gen_done"
    /\ Cardinality(Indexed) >= 3
    /\ \E p, q \in Indexed : p[1] # q[1]

\* C4: when hardening has returned no record holds a vulnerable q-gram, and
\* each one a record held is replaced by that q-gram followed by an index
\* registered under it; the other q-grams are kept.
C4_NoVulnLeft ==
    pc = "harden_done" =>
        \A r \in DOMAIN hard.data_dict :
            /\ hard.data_dict[r] \cap vuln_q_grams = {}
            /\ hard.data_in[r] \ vuln_q_grams \subseteq hard.data_dict[r]
            /\ \A q \in hard.data_in[r] \cap vuln_q_grams :
                  \E x \in Range(RefSetsOf(q)) : (q \o Str(x.key)) \in hard.data_dict[r]
            /\ Cardinality(hard.data_dict[r]) = Cardinality(hard.data_in[r])

\* hardening has returned and a record held two vulnerable q-grams
C4_Witness ==
    /\ pc = "harden_done"
    /\ \E r \in DOMAIN hard.data_in : Cardinality(hard.data_in[r] \cap vuln_q_grams) = 2

\* C5: a substitution step leaves the sum of the ledger's counts unchanged,
\* so the sum after a hardening run is the sum before it, and the ledger
\* never holds a count below 1.
C5_Conservation ==
    /\ [][pc = "harden_qv" =>
            LedgerSum(hard'.q_gram_f_dist) = LedgerSum(hard.q_gram_f_dist)]_vars
    /\ [](pc = "harden_done" =>
            LedgerSum(hard.q_gram_f_dist) = LedgerSum(ExtractCounts(hard.data_in)))
    /\ [](\A q \in DOMAIN hard.q_gram_f_dist : hard.q_gram_f_dist[q] >= 1)

\* hardening has returned, the entry of a vulnerable q-gram is gone and a
\* qualified token is counted twice
C5_Witness ==
    /\ pc = "harden_done"
    /\ \E q \in vuln_q_grams :
          /\ q \in DOMAIN ExtractCounts(hard.data_in)
          /\ q \notin DOMAIN hard.q_gram_f_dist
    /\ \E q \in DOMAIN hard.q_gram_f_dist :
          q \notin DOMAIN ExtractCounts(hard.data_in) /\ hard.q_gram_f_dist[q] = 2

\* C6: a second run with the same seed, databases, l_r and vulnerable
\* q-grams, of generation and hardening or of hardening alone on the table
\* of the first, gives the table, the hardened records and the ledger of the
\* first run.
C6_Deterministic ==
    run = 2 =>
        /\ pc # "crashed"
        /\ Generated => indexed_ref_sets = first.indexed_ref_sets
        /\ pc = "harden_done" =>
              /\ hard.data_dict = first.data_dict
              /\ hard.q_gram_f_dist = first.q_gram_f_dist

\* hardening alone was run again after a generation that drew for padding,
\* and its last substitution broke a tie
C6_Witness ==
    /\ run = 2
    /\ first.mode = "harden"
    /\ pc = "harden_done"
    /\ hard.last # <<>>
    /\ Cardinality(Best(LastBefore, hard.last.q_v)) >= 2
    /\ \E key \in DOMAIN memo : Len(key) >= 3 /\ key[2].op = "randint"

\* C7: the index chosen for q_v is registered under q_v and its reference
\* set scores highest against the record's set as it stood at that moment;
\* the record {th, er, xy} with {he, er, re} at 4 and {in, qu, zx} at 9
\* becomes {th4, er, xy}.
C7_MaxDice ==
    /\ hard.last # <<>> =>
          /\ LastToken \in hard.data_dict[hard.last.rec]
          /\ hard.last.qualifier \in Best(LastBefore, hard.last.q_v)
    /\ (/\ pc = "harden_done"
        /\ hard.data_in = ExampleSens
        /\ "th" \in vuln_q_grams
        /\ Range(RefSetsOf("th")) = {[key |-> 4, val |-> {"he", "er", "re"}],
                                     [key |-> 9, val |-> {"in", "qu", "zx"}]})
       => hard.data_dict = <<{"th4", "er", "xy"}>>

\* a substitution made after an earlier one in the same record, where a
\* single index scores highest and two tie against the record as given
C7_Witness ==
    /\ hard.last # <<>>
    /\ LastBefore # hard.data_in[hard.last.rec]
    /\ Best(LastBefore, hard.last.q_v) = {hard.last.qualifier}
    /\ Cardinality(Best(hard.data_in[hard.last.rec], hard.last.q_v)) = 2

\* C8: every reference set of a vulnerable q-gram whose pool has l_r members
\* or more is a subset of that pool and does not hold the q-gram; the
\* fallback list is drawn from only for the single chunk of a pool of fewer
\* than l_r members.
C8_PoolOnly ==
    /\ \A p \in Emitted :
          Cardinality(PoolOf(p[1])) >= l_r =>
              /\ gen.reference_sets[p[1]].val[p[2]] \subseteq PoolOf(p[1])
              /\ gen.reference_sets[p[1]].key \notin gen.reference_sets[p[1]].val[p[2]]
    /\ pc = "pad_fallback" =>
          /\ Cardinality(PoolOf(gen.qv_k)) < l_r
          /\ gen.reference_sets[gen.qv_k].val = <<>>
          /\ gen.i = 0
          /\ Len(gen.co_list) <= l_r

\* a finished generation with a pool of more than l_r members whose last
\* chunk was padded
C8_Witness ==
    /\ pc = "gen_done"
    /\ \E k \in DOMAIN gen.pools :
          /\ Cardinality(PoolOf(k)) > l_r
          /\ Cardinality(PoolOf(k)) % l_r # 0
          /\ Len(gen.reference_sets[k].val) = NumChunks(Cardinality(PoolOf(k)))

\* C9 as stated: the loops of generation finish when every padding has l_r distinct
\* q-grams to draw on, and a padding loop with fewer is never left.
C9_NeverExits ==
    /\ (pc # "idle" /\ EnoughMaterial) ~> (pc = "gen_index")
    /\ [][(pc = "pad_fallback" /\ Cardinality(FallbackMaterial) < l_r)
            => pc' = "pad_fallback"]_vars

\* C9: the loops of generation finish when every padding has l_r distinct q-grams to
\* draw on; a padding loop with fewer is never left when the fallback list
\* is non-empty, and ends in ValueError when it is empty.
C9_Termination ==
    /\ (pc # "idle" /\ EnoughMaterial) ~> (pc = "gen_index")
    /\ (pc = "pad_pool") ~> (pc # "pad_pool")
    /\ [][(pc = "pad_fallback" /\ Cardinality(FallbackMaterial) < l_r
             /\ non_vuln_q_grams # <<>>)
            => pc' = "pad_fallback"]_vars
    /\ [][(pc = "pad_fallback" /\ non_vuln_q_grams = <<>>)
            => (pc' = "crashed" /\ crash' = "ValueError")]_vars

\* the loops have finished and an undersized pool was padded from a
\* fallback list that also holds a q-gram of that pool
C9_Witness ==
    /\ pc = "gen_index"
    /\ \E k \in DOMAIN gen.pools :
          /\ PoolOf(k) # {}
          /\ Cardinality(PoolOf(k)) < l_r
          /\ Range(non_vuln_q_grams) \cap PoolOf(k) # {}
          /\ Len(gen.reference_sets[k].val) = 1

\* C10: the two lists returned are disjoint, hold every q-gram of the table
\* between them, the first holds the n most frequent, and the fallback list
\* of the VAH built from them holds no vulnerable q-gram.
C10_Partition ==
    /\ pc \in {"selected", "idle"} =>
          LET all == {sel.q_gram_dict[j].key : j \in DOMAIN sel.q_gram_dict}
              count(q) == sel.q_gram_dict[DictGet(sel.q_gram_dict, q)].val
              vuln == Range(sel.vuln_list)
          IN  /\ vuln \cap Range(sel.non_vuln_list) = {}
              /\ vuln \cup Range(sel.non_vuln_list) = all
              /\ Len(sel.vuln_list) = Min(sel.n, Len(sel.q_gram_dict))
              /\ \A v \in vuln, u \in all \ vuln : count(v) >= count(u)
    /\ pc = "idle" => Range(non_vuln_q_grams) \cap vuln_q_grams = {}

====
